---- MODULE Spec2Model ----
(***************************************************************************)
(* Model of backend/app/modules/network_scanner.py: the NetworkScanner     *)
(* orchestrator (ping_sweep, port_scan, _scan_single_target, the control   *)
(* operations pause_scan / resume_scan / cancel_scan) and the RateLimiter. *)
(*                                                                         *)
(* The program is a single-threaded asyncio program: the code between two  *)
(* await points runs atomically, so every action below is one such segment *)
(* of one coroutine, and the interleaving points are exactly the awaits    *)
(* (progress callback, create_subprocess_exec, process.communicate,        *)
(* asyncio.sleep).                                                         *)
(***************************************************************************)
EXTENDS Integers, Sequences, FiniteSets, TLC

\* ------------------------------------------------------------------ bounds
\* Number of coroutine invocations (ping_sweep / port_scan /
\* _scan_single_target calls) the environment issues in one run.
MaxTasks == 2
\* Largest reading of the wall clock (datetime.now / datetime.utcnow).
MaxClock == 1

Tasks == 1..MaxTasks
Times == 0..MaxClock

\* ------------------------------------------------------- program constants
\* settings.SCAN_RATE_LIMIT, the argument of RateLimiter(...) at line 83.
RequestsPerMinute == 100
\* timedelta(minutes=1) of RateLimiter.wait, in seconds.
Window == 60

\* end_time=None of a ScanResult that is still running.
NoTime == -1

\* Names bound in the global namespace of network_scanner.py: the imports of
\* lines 8-21 and the names the module itself defines.  `timedelta` is not
\* among them: line 13 reads `from datetime import datetime`.
ModuleNames ==
    {"asyncio", "subprocess", "json", "ET", "Dict", "List", "Optional", "Any",
     "Callable", "datetime", "Enum", "dataclass", "ipaddress", "socket",
     "logger", "settings", "ai_service", "ScanType", "ScanIntensity",
     "ScanTarget", "ScanResult", "NetworkScanner", "RateLimiter",
     "network_scanner"}

\* Python's lookup of a global name at the time the statement runs.
NameDefined(name) == name \in ModuleNames

\* ------------------------------------------------------------------ inputs
\* Networks handed to ping_sweep; ipaddress.ip_network accepts the first and
\* raises ValueError on the second.
Networks == {"192.168.1.0/24", "not-a-network"}
ip_network_ok(network) == network = "192.168.1.0/24"

\* Target lists handed to port_scan: prefixes of one list of distinct targets.
TargetPool == <<"10.0.0.1", "10.0.0.2", "10.0.0.3", "10.0.0.4", "10.0.0.5">>
BatchSizes == {0, 1, 5}
TargetLists == {SubSeq(TargetPool, 1, n) : n \in BatchSizes}

\* Targets handed to a direct call of _scan_single_target: a host address and
\* a string that is neither an address nor a host name.
MalformedTarget == "not a host"
SingleTargets == {TargetPool[1], MalformedTarget}

\* Scan ids: f"ping_sweep_{datetime.now().isoformat()}" and
\* f"port_scan_{datetime.now().isoformat()}": a prefix and a clock reading.
ScanId(kind, ts) == <<kind, ts>>
AllIds == {"ping_sweep", "port_scan"} \X Times

\* ------------------------------------------------------------------- state
VARIABLES
    clock,          \* current reading of the wall clock
    active_scans,   \* NetworkScanner.active_scans: scan id -> handle
    scan_history,   \* NetworkScanner.scan_history
    request_times,  \* RateLimiter.request_times
    pc,             \* per task: the await it is suspended at
    op,             \* per task: the coroutine it runs
    scan_id,        \* per task: local scan_id
    cb,             \* per task: whether a progress_callback was passed
    cur,            \* per task: the ScanResult it is building / has returned
    targets,        \* per task (port_scan): the targets argument
    idx,            \* per task (port_scan): loop index i
    results,        \* per task (port_scan): local list results
    ret,            \* per task: "none" | "returned" | "raised"
    ctl,            \* the last control call (its name) and its return value
    wait_log,       \* history: every RateLimiter.wait() call and how it ended
    proc,           \* per task: the external process it launched, its exit
                    \* code and its standard output
    events,         \* history, per task: the progress events its callback got
    fallback_log,   \* history, per task: whether line 438 logged the failure
                    \* of the structured parse (the fallback parser ran)
    analysed,       \* the scan_results argument of the last
                    \* analyze_scan_results call
    analysis,       \* the dict that call returned
    previous,       \* the dict the analyze_scan_results call before it
                    \* returned
    built,          \* history: the _build_nmap_command calls, each with its
                    \* target before and after and the list it returned
    parse_call,         \* the last direct call of a parser: which one, its
                    \* argument and its outcome
    cancel_seen,    \* history: per batch, targets started when cancel_scan
                    \* was last called with its id while it ran (NoTime: never)
    pause_seen      \* history: per batch, the pause_scan / cancel_scan calls
                    \* made with its id while it ran: "none", "paused" (the
                    \* last of pause_scan and resume_scan was pause_scan) or
                    \* "paused_cancelled" (cancel_scan was then called)

vars == <<clock, active_scans, scan_history, request_times, pc, op, scan_id,
          cb, cur, targets, idx, results, ret, ctl, wait_log, proc, events,
          fallback_log, analysed, analysis, previous, built, parse_call,
          cancel_seen, pause_seen>>

\* Python's None, for an attribute or a child element that is absent.
PyNone == "None"

\* The dict `results` of a ScanResult: `{}` (lines 285 and 313), and the
\* dict both port-scan parsers build (lines 394-398 and 444).
EmptyDict == [keys |-> {}, ports |-> <<>>, services |-> <<>>]
Findings(ports, services) ==
    [keys |-> {"ports", "host_info", "services"}, ports |-> ports,
     services |-> services]

\* A ScanResult (dataclass, lines 54-64); start_time of a result not yet
\* constructed is kept in the same record with status "none".  The results
\* dict of a ping sweep (its host list) is not modelled and stays empty.
NoResult ==
    [target |-> "", status |-> "none", start_time |-> NoTime,
     end_time |-> NoTime, errors |-> <<>>, results |-> EmptyDict]

ScanResult(target, status, start_time, end_time, errors) ==
    [target |-> target, status |-> status, start_time |-> start_time,
     end_time |-> end_time, errors |-> errors, results |-> EmptyDict]

NoId == <<"none", 0>>

\* ------------------------------------------------------ process and output
\* The standard output of the probing tool.  A well-formed document (xml) is
\* the sequence of its <port> elements: attributes portid and protocol, the
\* state attribute of the <state> child and the name attribute of the
\* <service> child, PyNone where the child is absent.  Anything else is text:
\* the sequence of its lines, each line the token list line.split() yields.
XmlDoc(ports) == [xml |-> TRUE, ports |-> ports, lines |-> <<>>]
TextDoc(lines) == [xml |-> FALSE, ports |-> <<>>, lines |-> lines]
NoDoc == TextDoc(<<>>)

PortElem(portid, state, service) ==
    [portid |-> portid, protocol |-> "tcp", state |-> state,
     service |-> service]

\* Outputs a port scan's process may hand back.
Outputs ==
    { XmlDoc(<<PortElem("80", "open", "http")>>),
      XmlDoc(<<>>),
      XmlDoc(<<PortElem("80", PyNone, PyNone)>>),
      TextDoc(<<<<"80/tcp", "open", "http">>>>),
      TextDoc(<<<<"Discovered", "open", "port", "80/tcp", "on",
                  "10.0.0.1">>>>),
      TextDoc(<<<<"Nmap", "done">>>>) }

\* process.returncode before the process has exited.
NoCode == -1

\* The process of one scan: not created, created by create_subprocess_exec,
\* or exited with a return code and its output read by communicate().
NoProcess == [st |-> "none", returncode |-> NoCode, stdout |-> NoDoc]
Launched == [st |-> "running", returncode |-> NoCode, stdout |-> NoDoc]
Exited(returncode, stdout) ==
    [st |-> "exited", returncode |-> returncode, stdout |-> stdout]

\* int(s) of Python: the value, or ValueError (TypeError for None).
PyIntOk(s) == s \in {"21", "53", "80", "443", "445"}
PyInt(s) ==
    CASE s = "21" -> 21 [] s = "53" -> 53 [] s = "80" -> 80
      [] s = "443" -> 443 [] s = "445" -> 445

\* str(n) of an int
PyStr(n) ==
    CASE n = 21 -> "21" [] n = 53 -> "53" [] n = 80 -> "80"
      [] n = 443 -> "443" [] n = 445 -> "445"

\* Which of the words "/tcp", "open", "filtered" occur in a token as a
\* substring.
Occurs(tok) ==
    CASE tok \in {"21/tcp", "80/tcp", "445/tcp", "abc/tcp"} -> {"/tcp"}
      [] tok = "open" -> {"open"}
      [] tok = "filtered" -> {"filtered"}
      [] tok = "open|filtered" -> {"open", "filtered"}
      [] OTHER -> {}

\* `word in line` for one of those words: a word without blanks occurs in
\* the line exactly when it occurs in one of its tokens.
InLine(word, line) == \E k \in DOMAIN line : word \in Occurs(line[k])

\* tok.split('/')[0]
SplitSlash0(tok) ==
    CASE tok = "21/tcp" -> "21"
      [] tok = "80/tcp" -> "80"
      [] tok = "445/tcp" -> "445"
      [] tok = "abc/tcp" -> "abc"
      [] tok = "53/udp" -> "53"
      [] OTHER -> tok

\* The outcome of a parser: it raised, or it returned the findings.
Raised == [raised |-> TRUE, results |-> EmptyDict]
Returned(found) == [raised |-> FALSE, results |-> found]

\* port_info of lines 409-415 / 459-465 (version and product left out).
PortInfo(port, protocol, state, service) ==
    [port |-> port, protocol |-> protocol, state |-> state,
     service |-> service]

\* The entries a parser appends to results["services"].
ServicesOf(ports, skip) ==
    LET named == SelectSeq(ports, LAMBDA q : q.service \notin skip)
    IN  [k \in DOMAIN named |->
            [port |-> named[k].port, service |-> named[k].service]]

\* _parse_port_scan_text (lines 442-476).
parse_port_scan_text(lines) ==
    LET taken == SelectSeq(lines, LAMBDA line :
                     /\ InLine("/tcp", line)
                     /\ InLine("open", line) \/ InLine("filtered", line)
                     /\ Len(line) >= 2)
        ports == [k \in DOMAIN taken |->
                     PortInfo(PyInt(SplitSlash0(taken[k][1])), "tcp",
                              taken[k][2],
                              IF Len(taken[k]) > 2 THEN taken[k][3]
                                                   ELSE "unknown")]
    IN  IF \E k \in DOMAIN taken : ~PyIntOk(SplitSlash0(taken[k][1]))
        THEN Raised  \* ValueError of int(port_num), line 460
        ELSE Returned(Findings(ports, ServicesOf(ports, {"unknown"})))

\* A structured parse that keeps the open ports only.
parse_port_scan_xml_open_only(elems) ==
    LET open == SelectSeq(elems, LAMBDA e : e.state = "open")
        ports == [k \in DOMAIN open |->
                     PortInfo(PyInt(open[k].portid), open[k].protocol,
                              open[k].state, open[k].service)]
    IN  IF \E k \in DOMAIN elems :
               ~PyIntOk(elems[k].portid) \/ elems[k].state = PyNone
        THEN Raised
        ELSE Returned(Findings(ports, ServicesOf(ports, {PyNone, ""})))

\* The try block of _parse_port_scan_results (lines 393-435) on a well-formed
\* document.
parse_port_scan_xml(elems) ==
    LET ports == [k \in DOMAIN elems |->
                     PortInfo(PyInt(elems[k].portid), elems[k].protocol,
                              elems[k].state, elems[k].service)]
    IN  IF \E k \in DOMAIN elems :
               ~PyIntOk(elems[k].portid) \/ elems[k].state = PyNone
        THEN Raised  \* ValueError / TypeError of int(), line 410, or
                     \* AttributeError of None.get, line 412
        ELSE Returned(Findings(ports, ServicesOf(ports, {PyNone, ""})))

\* ET.fromstring(xml_output), line 393, raises ParseError.
ParseError(doc) == ~doc.xml

\* A parser that also falls back to the text scan when the document holds
\* no port.
parse_port_scan_results_on_empty(doc) ==
    IF ParseError(doc) \/ doc.ports = <<>>
    THEN [out |-> parse_port_scan_text(doc.lines), fallback |-> TRUE]
    ELSE [out |-> parse_port_scan_xml(doc.ports), fallback |-> FALSE]

\* _parse_port_scan_results (lines 390-440): fallback tells whether the
\* handler of ParseError ran (the log line 438 and the call of line 440).
parse_port_scan_results(doc) ==
    IF ParseError(doc)
    THEN [out |-> parse_port_scan_text(doc.lines), fallback |-> TRUE]
    ELSE [out |-> parse_port_scan_xml(doc.ports), fallback |-> FALSE]

\* The keys of the dict port_info: those of its literal (lines 409-415 and
\* 459-465) and, on the structured path, "product", which line 422 adds
\* when the <port> element has a <service> child.
PortInfoKeys == {"port", "protocol", "state", "service", "version"}
XmlPortKeys(elem) ==
    PortInfoKeys \cup (IF elem.service # PyNone THEN {"product"} ELSE {})

\* The key sets of the entries of results["ports"], entry by entry, for the
\* outcome r of _parse_port_scan_results(doc).
port_info_keys(doc, r) ==
    IF r.out.raised THEN <<>>
    ELSE IF r.fallback
    THEN [k \in DOMAIN r.out.results.ports |-> PortInfoKeys]
    ELSE [k \in DOMAIN doc.ports |-> XmlPortKeys(doc.ports[k])]

\* ------------------------------------------- _parse_ping_sweep_results
\* `"Nmap scan report for" in line`: the four words, one blank apart,
\* somewhere in the line.
IsReport(line) ==
    \E i \in 1..Len(line) :
        i + 3 <= Len(line)
        /\ SubSeq(line, i, i + 3) = <<"Nmap", "scan", "report", "for">>

\* tok.strip('()')
StripParens(tok) ==
    CASE tok = "(10.0.0.1)" -> "10.0.0.1"
      [] tok = "(10.0.0.2)" -> "10.0.0.2"
      [] OTHER -> tok

\* Lines 370-386 for one report line: the index the branch taken reads
\* last (parts[5] or parts[4], counted from 0) is past the end of parts, so
\* the subscript raises IndexError.
HostRaises(parts) ==
    IF Len(parts) >= 5 THEN Len(parts) < 6 ELSE Len(parts) < 5

\* The entry appended to hosts.
HostOf(parts) ==
    IF Len(parts) >= 5
    THEN [ip |-> StripParens(parts[6]),
          hostname |-> IF parts[5] # StripParens(parts[6])
                       THEN parts[5] ELSE PyNone,
          status |-> "up"]
    ELSE [ip |-> parts[5], hostname |-> PyNone, status |-> "up"]

\* _parse_ping_sweep_results (lines 363-388).
parse_ping_sweep_results(lines) ==
    LET reports == SelectSeq(lines, IsReport)
    IN  IF \E k \in DOMAIN reports : HostRaises(reports[k])
        THEN [raised |-> TRUE, hosts |-> <<>>]
        ELSE [raised |-> FALSE,
              hosts |-> [k \in DOMAIN reports |-> HostOf(reports[k])]]

\* The value of `parse_call` before any parser has been called directly.
NoParse ==
    [fn |-> "none", doc |-> NoDoc, raised |-> FALSE, results |-> EmptyDict,
     port_keys |-> <<>>, hosts |-> <<>>, fallback |-> FALSE]

\* ----------------------------------------------------------- risk analysis
\* high_risk_ports (line 619) and unencrypted_services (line 632).
HighRiskPorts == {21, 23, 135, 139, 445, 1433, 3389}
UnencryptedServices == {"ftp", "telnet", "http", "smtp"}

\* The loop of lines 503-518: the open ports of the completed results whose
\* results dict has a "ports" key, in order, and the service names appended
\* to all_services, one per open port whose service is set and not
\* "unknown".
RECURSIVE AllPortsOfAnyStatus(_)
\* A loop that takes the open ports of every result, whatever its status.
AllPortsOfAnyStatus(scan_results) ==
    IF scan_results = <<>> THEN <<>>
    ELSE LET result == Head(scan_results)
             open == IF "ports" \in result.results.keys
                     THEN SelectSeq(result.results.ports,
                                    LAMBDA q : q.state = "open")
                     ELSE <<>>
         IN  [k \in DOMAIN open |->
                 [target |-> result.target, port |-> open[k].port,
                  service |-> open[k].service,
                  protocol |-> open[k].protocol]]
             \o AllPortsOfAnyStatus(Tail(scan_results))

RECURSIVE AllPorts(_)
AllPorts(scan_results) ==
    IF scan_results = <<>> THEN <<>>
    ELSE LET result == Head(scan_results)
             open == IF /\ result.status = "completed"
                        /\ "ports" \in result.results.keys
                     THEN SelectSeq(result.results.ports,
                                    LAMBDA q : q.state = "open")
                     ELSE <<>>
         IN  [k \in DOMAIN open |->
                 [target |-> result.target, port |-> open[k].port,
                  service |-> open[k].service,
                  protocol |-> open[k].protocol]]
             \o AllPorts(Tail(scan_results))

AllServices(all_ports) ==
    LET named == SelectSeq(all_ports, LAMBDA q :
                     q.service \notin {PyNone, "", "unknown"})
    IN  [k \in DOMAIN named |-> named[k].service]

\* len(set(services))
UniqueCount(services) ==
    Cardinality({services[k] : k \in DOMAIN services})

\* The score of _assess_scan_risks before the clamp (lines 620-635): the
\* unencrypted services are the entries of the list `services` found in
\* unencrypted_services, one per entry.
RiskScore(open_ports, services) ==
    LET found_high_risk_ports ==
            SelectSeq(open_ports, LAMBDA q : q.port \in HighRiskPorts)
        found_unencrypted ==
            SelectSeq(services, LAMBDA x : x \in UnencryptedServices)
    IN  Len(found_high_risk_ports) * 20
        + (IF Len(open_ports) > 50 THEN 30 ELSE 0)
        + Len(found_unencrypted) * 15

\* Levels whose medium band starts at 60.
RiskLevelMediumFrom60(risk_score) ==
    IF risk_score >= 100 THEN "critical"
    ELSE IF risk_score >= 70 THEN "high"
    ELSE IF risk_score >= 60 THEN "medium"
    ELSE "low"

\* Lines 637-645.
RiskLevel(risk_score) ==
    IF risk_score >= 100 THEN "critical"
    ELSE IF risk_score >= 70 THEN "high"
    ELSE IF risk_score >= 40 THEN "medium"
    ELSE "low"

\* risk_factors (lines 623, 628, 635): one message per term of the score
\* that applied, in this order; a message is kept as its kind, the count it
\* prints and the names it prints.
RiskFactors(open_ports, services) ==
    LET found_high_risk_ports ==
            SelectSeq(open_ports, LAMBDA q : q.port \in HighRiskPorts)
        found_unencrypted ==
            SelectSeq(services, LAMBDA x : x \in UnencryptedServices)
    IN  (IF found_high_risk_ports # <<>>
         THEN <<[factor |-> "high-risk ports",
                 n |-> Len(found_high_risk_ports), names |-> <<>>]>>
         ELSE <<>>)
        \o (IF Len(open_ports) > 50
            THEN <<[factor |-> "large attack surface", n |-> 0,
                    names |-> <<>>]>>
            ELSE <<>>)
        \o (IF found_unencrypted # <<>>
            THEN <<[factor |-> "unencrypted services", n |-> 0,
                    names |-> found_unencrypted]>>
            ELSE <<>>)

\* A score that is returned as computed, without min(risk_score, 100).
assess_scan_risks_unclamped(open_ports, services) ==
    LET risk_score == RiskScore(open_ports, services)
    IN  [risk_level |-> RiskLevel(risk_score),
         risk_score |-> risk_score,
         risk_factors |-> RiskFactors(open_ports, services),
         total_open_ports |-> Len(open_ports),
         unique_services |-> UniqueCount(services)]

\* _assess_scan_risks (lines 608-653).
assess_scan_risks(open_ports, services) ==
    LET risk_score == RiskScore(open_ports, services)
    IN  [risk_level |-> RiskLevel(risk_score),
         risk_score |-> IF risk_score < 100 THEN risk_score ELSE 100,
         risk_factors |-> RiskFactors(open_ports, services),
         total_open_ports |-> Len(open_ports),
         unique_services |-> UniqueCount(services)]

\* ------------------------------------------------------- recommendations
\* high_risk_services (line 568), the web ports of line 582 and db_services
\* (line 594).
HighRiskServices ==
    {"ftp", "telnet", "ssh", "smtp", "http", "https", "smb", "rdp"}
WebPorts == {80, 443, 8080, 8443}
DbServices == {"mysql", "postgresql", "mssql", "oracle"}

\* The key of the sort of line 606.
PriorityWeight(priority) ==
    CASE priority = "high" -> 3
      [] priority = "medium" -> 2
      [] priority = "low" -> 1

\* A descending sort that leaves entries of equal weight in reverse order
\* (an ascending stable sort, reversed).
SortedByPriorityReversingTies(actions) ==
    LET of(w) == SelectSeq(actions, LAMBDA a : PriorityWeight(a.priority) = w)
        up == of(1) \o of(2) \o of(3)
    IN  [k \in DOMAIN up |-> up[Len(up) + 1 - k]]

\* sorted(actions, key=..., reverse=True), line 606: Python's sort is stable
\* and stays so under reverse=True, so entries of equal weight keep the
\* order they had in `actions`.
SortedByPriority(actions) ==
    LET of(w) == SelectSeq(actions, LAMBDA a : PriorityWeight(a.priority) = w)
    IN  of(3) \o of(2) \o of(1)

\* One entry of `actions` (lines 572-579, 584-591, 597-604): description,
\* estimated_time, difficulty and tools are constants of the bucket, or
\* printed from its matches, and are left out.
Action(priority, name) == [priority |-> priority, action |-> name]

\* _generate_recommended_actions (lines 559-606).
generate_recommended_actions(open_ports, services) ==
    LET found_high_risk ==
            SelectSeq(services, LAMBDA x : x \in HighRiskServices)
        web_ports == SelectSeq(open_ports, LAMBDA q : q.port \in WebPorts)
        found_db == SelectSeq(services, LAMBDA x : x \in DbServices)
        actions ==
            (IF found_high_risk # <<>>
             THEN <<Action("high", "Service Enumeration")>> ELSE <<>>)
            \o (IF web_ports # <<>>
                THEN <<Action("medium", "Web Application Testing")>>
                ELSE <<>>)
            \o (IF found_db # <<>>
                THEN <<Action("high", "Database Assessment")>> ELSE <<>>)
    IN  SortedByPriority(actions)

\* The value of `analysis` before analyze_scan_results has been called.
NoAnalysis ==
    [ai_analysis |-> "none",
     scan_summary |-> [total_targets |-> 0, successful_scans |-> 0,
                       failed_scans |-> 0, open_ports |-> 0,
                       unique_services |-> 0],
     recommended_actions |-> <<>>,
     risk_assessment |-> assess_scan_risks(<<>>, <<>>)]

Init ==
    /\ clock = 0
    /\ active_scans = <<>>
    /\ scan_history = <<>>
    /\ request_times = <<>>
    /\ pc = [t \in Tasks |-> "idle"]
    /\ op = [t \in Tasks |-> "none"]
    /\ scan_id = [t \in Tasks |-> NoId]
    /\ cb = [t \in Tasks |-> FALSE]
    /\ cur = [t \in Tasks |-> NoResult]
    /\ targets = [t \in Tasks |-> <<>>]
    /\ idx = [t \in Tasks |-> 0]
    /\ results = [t \in Tasks |-> <<>>]
    /\ ret = [t \in Tasks |-> "none"]
    /\ ctl = [op |-> "none", ret |-> FALSE]
    /\ wait_log = <<>>
    /\ proc = [t \in Tasks |-> NoProcess]
    /\ events = [t \in Tasks |-> <<>>]
    /\ fallback_log = [t \in Tasks |-> FALSE]
    /\ analysed = <<>>
    /\ analysis = NoAnalysis
    /\ previous = NoAnalysis
    /\ built = <<>>
    /\ parse_call = NoParse
    /\ cancel_seen = [t \in Tasks |-> NoTime]
    /\ pause_seen = [t \in Tasks |-> "none"]

\* ---------------------------------------------------------- dict helpers
\* d[k] = v
DictSet(d, k, v) == [x \in (DOMAIN d) \cup {k} |-> IF x = k THEN v ELSE d[x]]
\* if k in d: del d[k]
DictDel(d, k) == [x \in (DOMAIN d) \ {k} |-> d[x]]

\* ------------------------------------------------------------------- clock
\* The wall clock advances between two readings, or does not: two readings
\* taken within one clock resolution are equal.
Tick ==
    /\ clock < MaxClock
    /\ clock' = clock + 1
    /\ UNCHANGED <<analysed, analysis, previous, built, parse_call,
                   active_scans, scan_history, request_times, pc, op,
                   scan_id, cb, cur, targets, idx, results, ret, ctl,
                   wait_log, events, fallback_log, proc,
                   cancel_seen, pause_seen>>

\* ------------------------------------------------------------ invocations
\* Invocations are numbered in the order in which they are called.
CanStart(t) ==
    /\ pc[t] = "idle"
    /\ \A u \in Tasks : u < t => pc[u] # "idle"

Running(t) == pc[t] \notin {"idle", "done"}

\* Number of targets of batch t whose single-target scan has been entered.
Started(t) ==
    Len(results[t]) + (IF pc[t] \in {"ss_exec", "ss_comm"} THEN 1 ELSE 0)

\* ------------------------------------------------------ control operations
\* History only: which running batches the id of a cancel_scan call names.
NoteCancel(id) ==
    /\ cancel_seen' =
           [t \in Tasks |->
               IF op[t] = "port_scan" /\ Running(t) /\ scan_id[t] = id
               THEN Started(t) ELSE cancel_seen[t]]
    /\ pause_seen' =
           [t \in Tasks |->
               IF /\ op[t] = "port_scan" /\ Running(t) /\ scan_id[t] = id
                  /\ pause_seen[t] = "paused"
               THEN "paused_cancelled" ELSE pause_seen[t]]

\* History only: the running batches the id of a pause_scan call (seen =
\* "paused") or of a resume_scan call (seen = "none") names.
NotePause(id, seen) ==
    pause_seen' =
        [t \in Tasks |->
            IF /\ op[t] = "port_scan" /\ Running(t) /\ scan_id[t] = id
               /\ pause_seen[t] # "paused_cancelled"
            THEN seen ELSE pause_seen[t]]

\* pause_scan that reports success without looking the id up.
pause_scan_always_true(id) ==
    /\ IF id \in DOMAIN active_scans
       THEN active_scans' = [active_scans EXCEPT ![id].paused = TRUE]
       ELSE active_scans' = active_scans
    /\ ctl' = [op |-> "pause_scan", ret |-> TRUE]
    /\ NotePause(id, "paused")
    /\ UNCHANGED <<analysed, analysis, previous, built, parse_call, clock,
                   scan_history, request_times, pc, op, scan_id, cb, cur,
                   targets, idx, results, ret, wait_log, events, fallback_log,
                   proc, cancel_seen>>

\* NetworkScanner.pause_scan
pause_scan(id) ==
    /\ IF id \in DOMAIN active_scans
       THEN /\ active_scans' = [active_scans EXCEPT ![id].paused = TRUE]
            /\ ctl' = [op |-> "pause_scan", ret |-> TRUE]
       ELSE /\ active_scans' = active_scans
            /\ ctl' = [op |-> "pause_scan", ret |-> FALSE]
    /\ NotePause(id, "paused")
    /\ UNCHANGED <<analysed, analysis, previous, built, parse_call, clock,
                   scan_history, request_times, pc, op, scan_id, cb, cur,
                   targets, idx, results, ret, wait_log, events, fallback_log,
                   proc, cancel_seen>>

\* resume_scan that flips the flag instead of clearing it.
resume_scan_toggles(id) ==
    /\ IF id \in DOMAIN active_scans
       THEN /\ active_scans' = [active_scans EXCEPT ![id].paused = ~@]
            /\ ctl' = [op |-> "resume_scan", ret |-> TRUE]
       ELSE /\ active_scans' = active_scans
            /\ ctl' = [op |-> "resume_scan", ret |-> FALSE]
    /\ NotePause(id, "none")
    /\ UNCHANGED <<analysed, analysis, previous, built, parse_call, clock,
                   scan_history, request_times, pc, op, scan_id, cb, cur,
                   targets, idx, results, ret, wait_log, events, fallback_log,
                   proc, cancel_seen>>

\* NetworkScanner.resume_scan
resume_scan(id) ==
    /\ IF id \in DOMAIN active_scans
       THEN /\ active_scans' = [active_scans EXCEPT ![id].paused = FALSE]
            /\ ctl' = [op |-> "resume_scan", ret |-> TRUE]
       ELSE /\ active_scans' = active_scans
            /\ ctl' = [op |-> "resume_scan", ret |-> FALSE]
    /\ NotePause(id, "none")
    /\ UNCHANGED <<analysed, analysis, previous, built, parse_call, clock,
                   scan_history, request_times, pc, op, scan_id, cb, cur,
                   targets, idx, results, ret, wait_log, events, fallback_log,
                   proc, cancel_seen>>

\* cancel_scan that also clears the paused flag of the handle.
cancel_scan_clearing_pause(id) ==
    /\ IF id \in DOMAIN active_scans
       THEN /\ active_scans' = [active_scans EXCEPT ![id].cancelled = TRUE,
                                                    ![id].paused = FALSE]
            /\ ctl' = [op |-> "cancel_scan", ret |-> TRUE]
       ELSE /\ active_scans' = active_scans
            /\ ctl' = [op |-> "cancel_scan", ret |-> FALSE]
    /\ NoteCancel(id)
    /\ UNCHANGED <<analysed, analysis, previous, built, parse_call, clock,
                   scan_history, request_times, pc, op, scan_id, cb, cur,
                   targets, idx, results, ret, wait_log, events, fallback_log,
                   proc>>

\* cancel_scan that also ends the coroutine the handle belongs to.
cancel_scan_kills(id) ==
    /\ IF id \in DOMAIN active_scans
       THEN /\ active_scans' = [active_scans EXCEPT ![id].cancelled = TRUE]
            /\ ctl' = [op |-> "cancel_scan", ret |-> TRUE]
            /\ pc' = [pc EXCEPT ![active_scans[id].result] = "done"]
       ELSE /\ active_scans' = active_scans
            /\ ctl' = [op |-> "cancel_scan", ret |-> FALSE]
            /\ pc' = pc
    /\ NoteCancel(id)
    /\ UNCHANGED <<analysed, analysis, previous, built, parse_call, clock,
                   scan_history, request_times, op, scan_id, cb, cur, targets,
                   idx, results, ret, wait_log, events, fallback_log, proc>>

\* NetworkScanner.cancel_scan
cancel_scan(id) ==
    /\ IF id \in DOMAIN active_scans
       THEN /\ active_scans' = [active_scans EXCEPT ![id].cancelled = TRUE]
            /\ ctl' = [op |-> "cancel_scan", ret |-> TRUE]
       ELSE /\ active_scans' = active_scans
            /\ ctl' = [op |-> "cancel_scan", ret |-> FALSE]
    /\ NoteCancel(id)
    /\ UNCHANGED <<analysed, analysis, previous, built, parse_call, clock,
                   scan_history, request_times, pc, op, scan_id, cb, cur,
                   targets, idx, results, ret, wait_log, events, fallback_log,
                   proc>>

\* -------------------------------------------------------------- ping_sweep
\* A finally block that forgets to stamp end_time.
PingFinallyNoEndTime(t, r) ==
    /\ cur' = [cur EXCEPT ![t] = r]
    /\ scan_history' = Append(scan_history, r)
    /\ active_scans' = DictDel(active_scans, scan_id[t])
    /\ pc' = [pc EXCEPT ![t] = "done"]
    /\ ret' = [ret EXCEPT ![t] = "returned"]

\* The finally block (lines 190-194) followed by `return scan_result`; r is
\* the ScanResult as the try/except left it.
PingFinally(t, r) ==
    LET final == [r EXCEPT !.end_time = clock] IN
    /\ cur' = [cur EXCEPT ![t] = final]
    /\ scan_history' = Append(scan_history, final)
    /\ active_scans' = DictDel(active_scans, scan_id[t])
    /\ pc' = [pc EXCEPT ![t] = "done"]
    /\ ret' = [ret EXCEPT ![t] = "returned"]

\* `except Exception as e` (lines 185-188), then the finally block.
PingExcept(t, r, msg) ==
    PingFinally(t, [r EXCEPT !.status = "error", !.errors = Append(@, msg)])

\* ping_sweep from its call to its first await (lines 102-157).
ping_sweep(t, network, callback) ==
    /\ CanStart(t)
    /\ op' = [op EXCEPT ![t] = "ping_sweep"]
    /\ scan_id' = [scan_id EXCEPT ![t] = ScanId("ping_sweep", clock)]
    /\ cb' = [cb EXCEPT ![t] = callback]
    /\ IF ~ip_network_ok(network)
       THEN \* lines 108-119: returned before anything is registered
            /\ cur' = [cur EXCEPT ![t] =
                   ScanResult(network, "error", clock, clock,
                              <<"Invalid network format">>)]
            /\ pc' = [pc EXCEPT ![t] = "done"]
            /\ ret' = [ret EXCEPT ![t] = "returned"]
            /\ UNCHANGED active_scans
       ELSE \* lines 121-136, then the await of line 155 or of line 157
            /\ cur' = [cur EXCEPT ![t] =
                   ScanResult(network, "running", clock, NoTime, <<>>)]
            /\ active_scans' =
                   DictSet(active_scans, ScanId("ping_sweep", clock),
                           [result |-> t, paused |-> FALSE,
                            cancelled |-> FALSE])
            /\ pc' = [pc EXCEPT ![t] = IF callback THEN "cb0" ELSE "exec"]
            /\ UNCHANGED ret
    /\ UNCHANGED <<analysed, analysis, previous, built, parse_call, clock,
                   scan_history, request_times, targets, idx, results, proc,
                   ctl, wait_log, events, fallback_log,
                   cancel_seen, pause_seen>>

\* `await progress_callback(0, ...)` (line 155) returns or raises.
ping_sweep_progress0(t, raises) ==
    /\ op[t] = "ping_sweep" /\ pc[t] = "cb0"
    /\ IF raises
       THEN PingExcept(t, cur[t], "callback failed")
       ELSE /\ pc' = [pc EXCEPT ![t] = "exec"]
            /\ UNCHANGED <<cur, scan_history, active_scans, ret>>
    /\ UNCHANGED <<analysed, analysis, previous, built, parse_call, proc,
                   clock, request_times, op, scan_id, cb, targets, idx,
                   results, ctl, wait_log, events, fallback_log, cancel_seen,
                   pause_seen>>

\* `await asyncio.create_subprocess_exec(...)` (lines 157-161) returns the
\* process or raises (tool missing, permission denied).
ping_sweep_exec(t, raises) ==
    /\ op[t] = "ping_sweep" /\ pc[t] = "exec"
    /\ IF raises
       THEN /\ PingExcept(t, cur[t], "launch failed")
            /\ UNCHANGED proc
       ELSE /\ pc' = [pc EXCEPT ![t] = "communicate"]
            /\ proc' = [proc EXCEPT ![t] = Launched]
            /\ UNCHANGED <<cur, scan_history, active_scans, ret>>
    /\ UNCHANGED <<analysed, analysis, previous, built, parse_call, clock,
                   request_times, op, scan_id, cb, targets, idx, results, ctl,
                   wait_log, events, fallback_log, cancel_seen, pause_seen>>

\* communicate() whose caller never looks at process.returncode.
ping_sweep_communicate_ignores_code(t, returncode, parse_raises) ==
    /\ op[t] = "ping_sweep" /\ pc[t] = "communicate"
    /\ proc' = [proc EXCEPT ![t] = Exited(returncode, NoDoc)]
    /\ IF parse_raises
       THEN PingExcept(t, cur[t], "parse failed")
       ELSE IF cb[t]
       THEN /\ cur' = [cur EXCEPT ![t].status = "completed"]
            /\ pc' = [pc EXCEPT ![t] = "cb100"]
            /\ UNCHANGED <<scan_history, active_scans, ret>>
       ELSE PingFinally(t, [cur[t] EXCEPT !.status = "completed"])
    /\ UNCHANGED <<analysed, analysis, previous, built, parse_call, clock,
                   request_times, op, scan_id, cb, targets, idx, results, ctl,
                   wait_log, events, fallback_log, cancel_seen, pause_seen>>

\* `await process.communicate()` returns (line 163); lines 165-183 up to the
\* next await.  parse_raises: _parse_ping_sweep_results raises.
ping_sweep_communicate(t, returncode, parse_raises) ==
    /\ op[t] = "ping_sweep" /\ pc[t] = "communicate"
    /\ proc' = [proc EXCEPT ![t] = Exited(returncode, NoDoc)]
    /\ IF returncode # 0
       THEN \* lines 165-169, then finally
            PingFinally(t, [cur[t] EXCEPT !.status = "error",
                                          !.errors = Append(@, "stderr")])
       ELSE IF parse_raises
       THEN PingExcept(t, cur[t], "parse failed")
       ELSE IF cb[t]
       THEN \* line 178 has run; suspended in the await of line 183
            /\ cur' = [cur EXCEPT ![t].status = "completed"]
            /\ pc' = [pc EXCEPT ![t] = "cb100"]
            /\ UNCHANGED <<scan_history, active_scans, ret>>
       ELSE PingFinally(t, [cur[t] EXCEPT !.status = "completed"])
    /\ UNCHANGED <<analysed, analysis, previous, built, parse_call, clock,
                   request_times, op, scan_id, cb, targets, idx, results, ctl,
                   wait_log, events, fallback_log, cancel_seen, pause_seen>>

\* `await progress_callback(100, ...)` (line 183) returns or raises.
ping_sweep_progress100(t, raises) ==
    /\ op[t] = "ping_sweep" /\ pc[t] = "cb100"
    /\ IF raises
       THEN PingExcept(t, cur[t], "callback failed")
       ELSE PingFinally(t, cur[t])
    /\ UNCHANGED <<analysed, analysis, previous, built, parse_call, proc,
                   clock, request_times, op, scan_id, cb, targets, idx,
                   results, ctl, wait_log, events, fallback_log, cancel_seen,
                   pause_seen>>

\* ------------------------------------------------------------- RateLimiter
SeqMin(q) == CHOOSE x \in {q[k] : k \in DOMAIN q} :
                 \A y \in {q[k] : k \in DOMAIN q} : x <= y

\* RateLimiter.wait up to its first suspension, called at clock reading now
\* with request_times = times.  Line 692 evaluates timedelta(minutes=1): the
\* name is unbound in this module, so the call raises NameError there, before
\* request_times is touched.  The other arms are the code of lines 692-707 as
\* it would run were the name bound.
RateLimiterWait(times, now) ==
    IF ~NameDefined("timedelta")
    THEN [outcome |-> "raise", times |-> times, sleep |-> 0]
    ELSE LET cutoff == now - Window
             kept == SelectSeq(times, LAMBDA x : x > cutoff)
             wait_seconds == (SeqMin(kept) + Window) - now
         IN  IF Len(kept) >= RequestsPerMinute /\ wait_seconds > 0
             THEN [outcome |-> "sleep", times |-> kept, sleep |-> wait_seconds]
             ELSE [outcome |-> "return", times |-> Append(kept, now),
                   sleep |-> 0]

\* --------------------------------------------------------------- port_scan
\* The part of the state one segment of port_scan / _scan_single_target
\* writes, as a record.
Here(t) ==
    [pc |-> pc[t], idx |-> idx[t], results |-> results[t], ret |-> ret[t],
     cur |-> cur[t], times |-> request_times, log |-> wait_log,
     proc |-> proc[t], events |-> events[t], fallback |-> fallback_log[t]]

SetTask(t, s) ==
    /\ pc' = [pc EXCEPT ![t] = s.pc]
    /\ idx' = [idx EXCEPT ![t] = s.idx]
    /\ results' = [results EXCEPT ![t] = s.results]
    /\ ret' = [ret EXCEPT ![t] = s.ret]
    /\ cur' = [cur EXCEPT ![t] = s.cur]
    /\ request_times' = s.times
    /\ wait_log' = s.log
    /\ proc' = [proc EXCEPT ![t] = s.proc]
    /\ events' = [events EXCEPT ![t] = s.events]
    /\ fallback_log' = [fallback_log EXCEPT ![t] = s.fallback]

\* Lines 250-253: after the loop (exhausted or left by break).
AfterLoop(s, hascb) ==
    IF hascb
    THEN [s EXCEPT !.pc = "ps_cb100"]
    ELSE [s EXCEPT !.pc = "done", !.ret = "returned"]

\* _scan_single_target from its call to its first await (lines 262-273).
SingleEnter(s, target) ==
    [s EXCEPT !.pc = "ss_exec",
              !.cur = ScanResult(target, "none", clock, NoTime, <<>>),
              !.proc = NoProcess, !.fallback = FALSE]

\* Lines 230-242 for target i (0-based): the cancel check, the pause loop,
\* the rate limiter, the call of _scan_single_target.  A task left in
\* "pause_sleep" or "rate_sleep" would be suspended in asyncio.sleep (lines
\* 237 and 704); no behaviour of the program gets there, since no key of
\* active_scans is a port_scan id and RateLimiterWait raises.
LoopBody(s, i, tl, sid, hascb) ==
    IF sid \in DOMAIN active_scans /\ active_scans[sid].cancelled
    THEN AfterLoop(s, hascb)
    ELSE IF sid \in DOMAIN active_scans /\ active_scans[sid].paused
    THEN [s EXCEPT !.pc = "pause_sleep"]
    ELSE LET w == RateLimiterWait(s.times, clock) IN
         IF w.outcome = "raise"
         THEN [s EXCEPT !.pc = "done", !.ret = "raised",
                        !.log = Append(@, [at |-> clock, end |-> "raised",
                                           waited |-> 0])]
         ELSE IF w.outcome = "sleep"
         THEN [s EXCEPT !.pc = "rate_sleep", !.times = w.times]
         ELSE SingleEnter(
                  [s EXCEPT !.times = w.times,
                            !.log = Append(@, [at |-> clock,
                                               end |-> "returned",
                                               waited |-> 0])],
                  tl[i + 1])

\* progress = int((i / len(targets)) * 100), line 227; for the batch sizes
\* used here the float product is the exact quotient.
Percent(i, n) == (i * 100) \div n

\* Lines 225-228: the head of iteration i, up to the await of the progress
\* callback when there is one.
LoopHead(s, i, tl, sid, hascb) ==
    IF i < Len(tl)
    THEN IF hascb
         THEN [s EXCEPT !.pc = "ps_cb", !.idx = i]
         ELSE LoopBody([s EXCEPT !.idx = i], i, tl, sid, hascb)
    ELSE AfterLoop(s, hascb)

\* port_scan from its call to its first await (lines 219-242).  No handle is
\* stored in active_scans: scan_id is only ever read.
port_scan(t, tl, callback) ==
    /\ CanStart(t)
    /\ op' = [op EXCEPT ![t] = "port_scan"]
    /\ scan_id' = [scan_id EXCEPT ![t] = ScanId("port_scan", clock)]
    /\ cb' = [cb EXCEPT ![t] = callback]
    /\ targets' = [targets EXCEPT ![t] = tl]
    /\ SetTask(t, LoopHead([Here(t) EXCEPT !.results = <<>>], 0, tl,
                           ScanId("port_scan", clock), callback))
    /\ UNCHANGED <<analysed, analysis, previous, built, parse_call, clock,
                   active_scans, scan_history, ctl, cancel_seen, pause_seen>>

\* `await progress_callback(progress, ...)` of line 228 returns or raises; an
\* exception of the callback is caught nowhere in port_scan.
port_scan_progress(t, raises) ==
    /\ op[t] = "port_scan" /\ pc[t] = "ps_cb"
    /\ LET e == [pct |-> Percent(idx[t], Len(targets[t])),
                 ok |-> ~raises]
           s == [Here(t) EXCEPT !.events = Append(@, e)]
       IN  IF raises
           THEN SetTask(t, [s EXCEPT !.pc = "done", !.ret = "raised"])
           ELSE SetTask(t, LoopBody(s, idx[t], targets[t], scan_id[t],
                                    cb[t]))
    /\ UNCHANGED <<analysed, analysis, previous, built, parse_call, clock,
                   active_scans, scan_history, op, scan_id, cb, targets, ctl,
                   cancel_seen, pause_seen>>

\* `await progress_callback(100, ...)` of line 251 returns or raises.
port_scan_progress100(t, raises) ==
    /\ op[t] = "port_scan" /\ pc[t] = "ps_cb100"
    /\ LET s == [Here(t) EXCEPT
                    !.events = Append(@, [pct |-> 100, ok |-> ~raises])]
       IN  IF raises
           THEN SetTask(t, [s EXCEPT !.pc = "done", !.ret = "raised"])
           ELSE SetTask(t, [s EXCEPT !.pc = "done", !.ret = "returned"])
    /\ UNCHANGED <<analysed, analysis, previous, built, parse_call, clock,
                   active_scans, scan_history, op, scan_id, cb, targets, ctl,
                   cancel_seen, pause_seen>>

\* ----------------------------------------------------- _scan_single_target
\* A return of _scan_single_target with ScanResult r: to the caller of a
\* direct call, or to line 243 of port_scan and on to the next iteration.
SingleReturn(t, r) ==
    IF op[t] = "port_scan"
    THEN LoopHead([Here(t) EXCEPT !.cur = r, !.results = Append(@, r)],
                  idx[t] + 1, targets[t], scan_id[t], cb[t])
    ELSE [Here(t) EXCEPT !.pc = "done", !.ret = "returned", !.cur = r]

\* A direct call of _scan_single_target.
scan_single_target(t, target) ==
    /\ CanStart(t)
    /\ op' = [op EXCEPT ![t] = "scan_single"]
    /\ SetTask(t, SingleEnter(Here(t), target))
    /\ UNCHANGED <<analysed, analysis, previous, built, parse_call, clock,
                   active_scans, scan_history, scan_id, cb, targets, ctl,
                   cancel_seen, pause_seen>>

\* `await asyncio.create_subprocess_exec(...)` (lines 269-273) returns the
\* process or raises; `except Exception` (lines 305-316) returns an error
\* result.
scan_single_exec(t, raises) ==
    /\ pc[t] = "ss_exec"
    /\ IF raises
       THEN SetTask(t, SingleReturn(t,
                ScanResult(cur[t].target, "error", cur[t].start_time, clock,
                           <<"launch failed">>)))
       ELSE SetTask(t, [Here(t) EXCEPT !.pc = "ss_comm", !.proc = Launched])
    /\ UNCHANGED <<analysed, analysis, previous, built, parse_call, clock,
                   active_scans, scan_history, op, scan_id, cb, targets, ctl,
                   cancel_seen, pause_seen>>

\* `await process.communicate()` returns (line 275) with the process's exit
\* code and output; lines 277-316.  An exception of the parser other than
\* the ParseError it handles itself ends in `except Exception`.
scan_single_communicate(t, returncode, stdout) ==
    /\ pc[t] = "ss_comm"
    /\ LET parsed == parse_port_scan_results(stdout)
           r == IF returncode # 0
                THEN ScanResult(cur[t].target, "error", cur[t].start_time,
                                clock, <<"stderr">>)
                ELSE IF parsed.out.raised
                THEN ScanResult(cur[t].target, "error", cur[t].start_time,
                                clock, <<"parse failed">>)
                ELSE [ScanResult(cur[t].target, "completed",
                                 cur[t].start_time, clock, <<>>)
                          EXCEPT !.results = parsed.out.results]
       IN  SetTask(t, [SingleReturn(t, r) EXCEPT
                          !.proc = Exited(returncode, stdout),
                          !.fallback = returncode = 0 /\ parsed.fallback])
    /\ UNCHANGED <<analysed, analysis, previous, built, parse_call, clock,
                   active_scans, scan_history, op, scan_id, cb, targets, ctl,
                   cancel_seen, pause_seen>>

\* What communicate() may return for a port scan: exit code 0 with one of
\* the outputs, or a non-zero exit code, whose output is not read.
ProcessExits == ({0} \X Outputs) \cup {<<1, NoDoc>>}

Next ==
    \/ Tick
    \/ \E id \in AllIds : pause_scan(id)
    \/ \E id \in AllIds : resume_scan(id)
    \/ \E id \in AllIds : cancel_scan(id)
    \/ \E t \in Tasks, network \in Networks, callback \in BOOLEAN :
           ping_sweep(t, network, callback)
    \/ \E t \in Tasks, raises \in BOOLEAN : ping_sweep_progress0(t, raises)
    \/ \E t \in Tasks, raises \in BOOLEAN : ping_sweep_exec(t, raises)
    \/ \E t \in Tasks, returncode \in {0, 1}, parse_raises \in BOOLEAN :
           ping_sweep_communicate(t, returncode, parse_raises)
    \/ \E t \in Tasks, raises \in BOOLEAN : ping_sweep_progress100(t, raises)
    \/ \E t \in Tasks, tl \in TargetLists, callback \in BOOLEAN :
           port_scan(t, tl, callback)
    \/ \E t \in Tasks, raises \in BOOLEAN : port_scan_progress(t, raises)
    \/ \E t \in Tasks, raises \in BOOLEAN : port_scan_progress100(t, raises)
    \/ \E t \in Tasks, target \in SingleTargets :
           scan_single_target(t, target)
    \/ \E t \in Tasks, raises \in BOOLEAN : scan_single_exec(t, raises)
    \/ \E t \in Tasks, x \in ProcessExits :
           scan_single_communicate(t, x[1], x[2])

Spec == Init /\ [][Next]_vars

\* ------------------------------------------------- analyze_scan_results
\* Bounds of the result lists handed to analyze_scan_results.
MaxResults == 2
MaxPorts == 2
\* Length of a port list long enough to count as a large attack surface.
ManyPorts == 51

\* Entries of results["ports"] the analysed results are built from.
PortPool ==
    { PortInfo(21, "tcp", "open", "ftp"),
      PortInfo(23, "tcp", "open", "telnet"),
      PortInfo(80, "tcp", "open", "http"),
      PortInfo(22, "tcp", "open", "ssh"),
      PortInfo(445, "tcp", "closed", "microsoft-ds"),
      PortInfo(80, "tcp", "filtered", "http"),
      PortInfo(8080, "tcp", "open", PyNone),
      PortInfo(3306, "tcp", "open", "mysql") }

\* A long list of open ports outside the high-risk set, service unnamed.
ManyOpenPorts ==
    [k \in 1..ManyPorts |-> PortInfo(10000 + k, "tcp", "open", PyNone)]

\* Three open ports, two of them high-risk, one unencrypted service, and
\* the lists that add open ports to them up to ManyPorts in total: ports of
\* no note, or such ports and one more port of the high-risk set.
FewPorts ==
    << PortInfo(445, "tcp", "open", PyNone),
       PortInfo(3389, "tcp", "open", PyNone),
       PortInfo(22, "tcp", "open", "ftp") >>
MorePorts ==
    { SubSeq(ManyOpenPorts, 1, ManyPorts - Len(FewPorts)),
      SubSeq(ManyOpenPorts, 1, ManyPorts - Len(FewPorts) - 1)
          \o <<PortInfo(21, "tcp", "open", PyNone)>> }

PortLists ==
    UNION {[1..n -> PortPool] : n \in 0..MaxPorts}
    \cup {ManyOpenPorts, FewPorts} \cup {FewPorts \o more : more \in MorePorts}

\* The port list of a result that failed and was handed in with findings.
FailedPorts ==
    << PortInfo(21, "tcp", "open", "ftp"),
       PortInfo(3306, "tcp", "open", "mysql"),
       PortInfo(443, "tcp", "open", PyNone) >>

\* The results handed in: completed ones carrying a port list, one that
\* failed, and one that failed and carries a port list (ScanResult is a
\* plain dataclass: the caller builds the list).
AnalysedResults ==
    { [ScanResult("10.0.0.1", "completed", 0, 0, <<>>)
          EXCEPT !.results = Findings(pl, ServicesOf(pl, {PyNone, ""}))] :
      pl \in PortLists }
    \cup {ScanResult("10.0.0.1", "error", 0, 0, <<"stderr">>)}
    \cup {[ScanResult("10.0.0.2", "error", 0, 0, <<"stderr">>)
              EXCEPT !.results =
                  Findings(FailedPorts, ServicesOf(FailedPorts, {PyNone, ""}))]}

ResultLists == UNION {[1..n -> AnalysedResults] : n \in 0..MaxResults}

\* An analysis whose risk assessment is computed only when the narrative
\* reply is not an error.
analyze_scan_results_trusting_reply(scan_results, ai_error) ==
    LET all_ports == AllPorts(scan_results)
        all_services == AllServices(all_ports)
        status_is(x) == SelectSeq(scan_results, LAMBDA r : r.status = x)
    IN  /\ \/ analysis = NoAnalysis
           \/ previous = NoAnalysis /\ scan_results = analysed
        /\ analysed' = scan_results
        /\ previous' = analysis
        /\ analysis' =
               [ai_analysis |-> IF ai_error THEN "error" ELSE "response",
                scan_summary |->
                    [total_targets |-> Len(scan_results),
                     successful_scans |-> Len(status_is("completed")),
                     failed_scans |-> Len(status_is("error")),
                     open_ports |-> Len(all_ports),
                     unique_services |-> UniqueCount(all_services)],
                recommended_actions |->
                    generate_recommended_actions(all_ports, all_services),
                risk_assessment |->
                    IF ai_error THEN assess_scan_risks(<<>>, <<>>)
                    ELSE assess_scan_risks(all_ports, all_services)]
        /\ UNCHANGED <<clock, active_scans, scan_history, request_times, pc,
                       op, scan_id, cb, cur, targets, idx, results, ret, ctl,
                       wait_log, proc, events, fallback_log, built, parse_call,
                       cancel_seen, pause_seen>>

\* analyze_scan_results (lines 478-557).  ai_error: ai_service.query_ai
\* answered with its error dict; it raises nothing.  The function reads and
\* writes no state of the scanner, so a run issues one call of it and may
\* repeat that call once on the same results.
analyze_scan_results(scan_results, ai_error) ==
    LET all_ports == AllPorts(scan_results)
        all_services == AllServices(all_ports)
        status_is(x) == SelectSeq(scan_results, LAMBDA r : r.status = x)
    IN  /\ \/ analysis = NoAnalysis
           \/ previous = NoAnalysis /\ scan_results = analysed
        /\ analysed' = scan_results
        /\ previous' = analysis
        /\ analysis' =
               [ai_analysis |-> IF ai_error THEN "error" ELSE "response",
                scan_summary |->
                    [total_targets |-> Len(scan_results),
                     successful_scans |-> Len(status_is("completed")),
                     failed_scans |-> Len(status_is("error")),
                     open_ports |-> Len(all_ports),
                     unique_services |-> UniqueCount(all_services)],
                recommended_actions |->
                    generate_recommended_actions(all_ports, all_services),
                risk_assessment |->
                    assess_scan_risks(all_ports, all_services)]
        /\ UNCHANGED <<clock, active_scans, scan_history, request_times, pc,
                       op, scan_id, cb, cur, targets, idx, results, ret, ctl,
                       wait_log, proc, events, fallback_log, built, parse_call,
                       cancel_seen, pause_seen>>

NextAnalysis ==
    \E scan_results \in ResultLists, ai_error \in BOOLEAN :
        analyze_scan_results(scan_results, ai_error)

\* The analysis engine on its own: every call of analyze_scan_results on a
\* scanner that runs no scan.
SpecAnalysis == Init /\ [][NextAnalysis]_vars

\* ----------------------------------------------------- parsers, called alone
\* Longest text handed to a parser, in lines, and largest number of <port>
\* elements of a document.
MaxLines == 2

\* Lines of a port scan's text output.
TextLines ==
    { <<"80/tcp", "open", "http">>,
      <<"80/tcp", "open">>,
      <<"21/tcp", "filtered", "ftp">>,
      <<"80/tcp", "closed", "http">>,
      <<"53/udp", "open", "domain">>,
      <<"abc/tcp", "open", "http">>,
      <<"Discovered", "open", "port", "80/tcp", "on", "10.0.0.1">>,
      <<"Nmap", "done">> }

\* <port> elements of a document: three with a state, one without.
PortElems ==
    { PortElem("80", "open", "http"),
      PortElem("21", "closed", PyNone),
      PortElem("445", "filtered", "microsoft-ds"),
      PortElem("443", PyNone, PyNone) }

\* Lines of a ping sweep's output.
PingLines ==
    { <<"Nmap", "scan", "report", "for", "host.example", "(10.0.0.1)">>,
      <<"Nmap", "scan", "report", "for", "10.0.0.2", "(10.0.0.2)">>,
      <<"Nmap", "scan", "report", "for", "10.0.0.1">>,
      <<"Host", "is", "up">> }

SeqsUpTo(S, n) == UNION {[1..k -> S] : k \in 0..n}

PortScanDocs ==
    {XmlDoc(e) : e \in SeqsUpTo(PortElems, MaxLines)}
    \cup {TextDoc(l) : l \in SeqsUpTo(TextLines, MaxLines)}
PingSweepDocs == {TextDoc(l) : l \in SeqsUpTo(PingLines, MaxLines)}

\* A direct call of _parse_port_scan_results.
call_parse_port_scan_results(doc) ==
    /\ LET r == parse_port_scan_results(doc)
       IN  parse_call' = [fn |-> "port_scan", doc |-> doc,
                      raised |-> r.out.raised, results |-> r.out.results,
                      port_keys |-> port_info_keys(doc, r),
                      hosts |-> <<>>, fallback |-> r.fallback]
    /\ UNCHANGED <<clock, active_scans, scan_history, request_times, pc, op,
                   scan_id, cb, cur, targets, idx, results, ret, ctl,
                   wait_log, proc, events, fallback_log, analysed, analysis,
                   previous, built, cancel_seen, pause_seen>>

\* A direct call of _parse_ping_sweep_results.
call_parse_ping_sweep_results(doc) ==
    /\ LET r == parse_ping_sweep_results(doc.lines)
       IN  parse_call' = [fn |-> "ping_sweep", doc |-> doc,
                      raised |-> r.raised, results |-> EmptyDict,
                      port_keys |-> <<>>,
                      hosts |-> r.hosts, fallback |-> FALSE]
    /\ UNCHANGED <<clock, active_scans, scan_history, request_times, pc, op,
                   scan_id, cb, cur, targets, idx, results, ret, ctl,
                   wait_log, proc, events, fallback_log, analysed, analysis,
                   previous, built, cancel_seen, pause_seen>>

NextParse ==
    \/ \E doc \in PortScanDocs : call_parse_port_scan_results(doc)
    \/ \E doc \in PingSweepDocs : call_parse_ping_sweep_results(doc)

\* The output parsers on their own.
SpecParse == Init /\ [][NextParse]_vars

\* ------------------------------------------------------ _build_nmap_command
\* Number of _build_nmap_command calls of a run.
MaxBuilds == 2

\* ScanTarget.ports: None, or a list.
NoPorts == [given |-> FALSE, list |-> <<>>]
Ports(list) == [given |-> TRUE, list |-> list]
PortArgs ==
    { NoPorts, Ports(<<>>), Ports(<<80>>), Ports(<<80, 443>>),
      Ports(<<443, 80>>), Ports(<<80, 443, 80>>) }
BuildTargets == {[target |-> "10.0.0.1", ports |-> a] : a \in PortArgs}

\* scan_type_map (lines 328-336).
ScanTypeMap ==
    [tcp_connect |-> <<"-sT">>, tcp_syn |-> <<"-sS">>, udp |-> <<"-sU">>,
     stealth |-> <<"-sS", "-f">>, version |-> <<"-sV">>, os |-> <<"-O">>,
     comprehensive |-> <<"-sS", "-sV", "-O", "-A">>]
ScanTypes == DOMAIN ScanTypeMap \cup {"bogus"}

\* A member of the enum ScanIntensity, and a value that is none: a plain
\* string (it is no key of intensity_map, whatever it spells) or None.
Member(value) == [enum |-> TRUE, value |-> value]
Plain(value) == [enum |-> FALSE, value |-> value]
ScanIntensity ==
    {Member(v) : v \in {"light", "normal", "aggressive", "insane"}}
Intensities == ScanIntensity \cup {Plain("paranoid"), Plain(PyNone)}

\* intensity_map (lines 341-346), by the value of the member.
IntensityMap ==
    [light |-> <<"-T1", "--max-retries", "1">>,
     normal |-> <<"-T3", "--max-retries", "2">>,
     aggressive |-> <<"-T4", "--max-retries", "3">>,
     insane |-> <<"-T5", "--max-retries", "5">>]

\* ",".join(map(str, ports))
RECURSIVE JoinComma(_)
JoinComma(ports) ==
    IF ports = <<>> THEN ""
    ELSE IF Len(ports) = 1 THEN PyStr(ports[1])
    ELSE PyStr(ports[1]) \o "," \o JoinComma(Tail(ports))

\* A builder whose default for an unknown intensity is the light flags.
build_nmap_command_light_default(target, scan_type, intensity) ==
    <<"nmap">>
    \o (IF scan_type \in DOMAIN ScanTypeMap
        THEN ScanTypeMap[scan_type] ELSE <<"-sT">>)
    \o (IF intensity \in ScanIntensity
        THEN IntensityMap[intensity.value] ELSE IntensityMap["light"])
    \o (IF target.ports.given /\ target.ports.list # <<>>
        THEN <<"-p", JoinComma(target.ports.list)>> ELSE <<>>)
    \o <<"-oX", "-">>
    \o <<target.target>>

\* _build_nmap_command (lines 318-361).
build_nmap_command(target, scan_type, intensity) ==
    <<"nmap">>
    \o (IF scan_type \in DOMAIN ScanTypeMap
        THEN ScanTypeMap[scan_type] ELSE <<"-sT">>)
    \o (IF intensity \in ScanIntensity
        THEN IntensityMap[intensity.value] ELSE IntensityMap["normal"])
    \o (IF target.ports.given /\ target.ports.list # <<>>
        THEN <<"-p", JoinComma(target.ports.list)>> ELSE <<>>)
    \o <<"-oX", "-">>
    \o <<target.target>>

\* A builder that keeps its command list between calls.
call_build_nmap_command_keeping_list(target, scan_type, intensity) ==
    /\ Len(built) < MaxBuilds
    /\ \/ built = <<>>
       \/ /\ built # <<>>
          /\ target = built[1].target
          /\ scan_type = built[1].scan_type
          /\ intensity = built[1].intensity
    /\ built' = Append(built,
           [target |-> target, scan_type |-> scan_type,
            intensity |-> intensity, target_after |-> target,
            command |->
                (IF built = <<>> THEN <<>> ELSE built[Len(built)].command)
                \o build_nmap_command(target, scan_type, intensity)])
    /\ UNCHANGED <<clock, active_scans, scan_history, request_times, pc, op,
                   scan_id, cb, cur, targets, idx, results, ret, ctl,
                   wait_log, proc, events, fallback_log, analysed, analysis,
                   previous, parse_call, cancel_seen, pause_seen>>

\* A call of _build_nmap_command: it reads its arguments and writes a local
\* list only.  A run repeats the call with the arguments of its first call.
call_build_nmap_command(target, scan_type, intensity) ==
    /\ Len(built) < MaxBuilds
    /\ \/ built = <<>>
       \/ /\ built # <<>>
          /\ target = built[1].target
          /\ scan_type = built[1].scan_type
          /\ intensity = built[1].intensity
    /\ built' = Append(built,
           [target |-> target, scan_type |-> scan_type,
            intensity |-> intensity, target_after |-> target,
            command |-> build_nmap_command(target, scan_type, intensity)])
    /\ UNCHANGED <<clock, active_scans, scan_history, request_times, pc, op,
                   scan_id, cb, cur, targets, idx, results, ret, ctl,
                   wait_log, proc, events, fallback_log, analysed, analysis,
                   previous, parse_call, cancel_seen, pause_seen>>

NextBuild ==
    \E target \in BuildTargets, scan_type \in ScanTypes,
       intensity \in Intensities :
        call_build_nmap_command(target, scan_type, intensity)

\* The command builder on its own.
SpecBuild == Init /\ [][NextBuild]_vars

\* ================================================================== claims

\* A batch that ran without a progress callback and has ended (an exception
\* of the caller's own callback is not a fault of the batch).
EndedBatch(t) == op[t] = "port_scan" /\ ~cb[t] /\ pc[t] = "done"

\* C1: a port_scan batch of 5 targets for which cancel_scan is called after
\* its 2nd target has started launches no further target and returns a
\* result list of length at most 2 with no entry of status 'running'.
C1_CancelMidBatch ==
    \A t \in Tasks :
        (EndedBatch(t) /\ Len(targets[t]) = 5) =>
            /\ ret[t] = "returned"
            /\ cancel_seen[t] = 2 =>
                   /\ Len(results[t]) <= 2
                   /\ \A i \in DOMAIN results[t] :
                          results[t][i].status # "running"

C3_FailureContained ==
    \A t \in Tasks :
        (EndedBatch(t) /\ cancel_seen[t] = NoTime) =>
            /\ ret[t] = "returned"
            /\ Len(results[t]) = Len(targets[t])
            /\ \A i \in DOMAIN results[t] :
                   \/ results[t][i].status = "completed"
                   \/ /\ results[t][i].status = "error"
                      /\ results[t][i].errors # <<>>

\* Scans in flight: started and not yet returned.
InFlight == {t \in Tasks : op[t] \in {"ping_sweep", "port_scan"} /\ Running(t)}

\* C4: the keys of active_scans are exactly the ids of the scans in flight
\* (every ping_sweep and every port_scan batch that has started and not yet
\* returned), one handle per scan in flight.
C4_RegistryMatchesInFlight ==
    /\ DOMAIN active_scans = {scan_id[t] : t \in InFlight}
    /\ \A t, u \in InFlight : t # u => scan_id[t] # scan_id[u]

\* A ping_sweep that ran past validation and has terminated.
Terminated(t) ==
    op[t] = "ping_sweep" /\ pc[t] = "done" /\ cur[t].end_time # NoTime
       /\ cur[t].errors # <<"Invalid network format">>

\* C5: once a ping_sweep scan has terminated (completed, non-zero exit or
\* exception) its id is no key of active_scans when the result is returned,
\* and every later pause_scan, resume_scan or cancel_scan on that id
\* returns False.
C5_TerminatedScanIsGone ==
    [][\A t \in Tasks :
          /\ (~Terminated(t) /\ Terminated(t)') =>
                 scan_id[t] \notin DOMAIN active_scans'
          /\ Terminated(t) =>
                 ((\/ pause_scan(scan_id[t])
                   \/ resume_scan(scan_id[t])
                   \/ cancel_scan(scan_id[t])) => ~ctl'.ret)]_vars

C7_StatusSetOnce ==
    [][\A t \in Tasks :
          (op[t] = "ping_sweep" /\ cur[t].status \in {"completed", "error"})
              => cur'[t].status = cur[t].status]_vars

\* A ScanResult with a closed time interval and a final status.
Closed(r) ==
    /\ r.end_time # NoTime
    /\ r.end_time >= r.start_time
    /\ r.status \in {"completed", "error"}

\* C8: every ScanResult returned by ping_sweep, _scan_single_target or
\* port_scan has end_time set, not earlier than start_time, and a status
\* other than 'running'.
C8_ReturnedResultsClosed ==
    \A t \in Tasks :
        ret[t] = "returned" =>
            /\ op[t] \in {"ping_sweep", "scan_single"} => Closed(cur[t])
            /\ op[t] = "port_scan" =>
                   \A i \in DOMAIN results[t] : Closed(results[t][i])

C8_Witness ==
    \E t, u \in Tasks :
        /\ op[t] = "ping_sweep" /\ ret[t] = "returned"
        /\ cur[t].status = "completed" /\ cur[t].end_time > cur[t].start_time
        /\ op[u] = "scan_single" /\ ret[u] = "returned"
        /\ cur[u].status = "error"

BatchPaused(t) ==
    scan_id[t] \in DOMAIN active_scans /\ active_scans[scan_id[t]].paused

\* C10: a running batch has a paused flag that pause_scan sets; while the
\* flag is set port_scan starts no further target.
C10_PauseGatesBatch ==
    [][\A t \in Tasks :
          (op[t] = "port_scan" /\ Running(t)) =>
              /\ pause_scan(scan_id[t]) =>
                     /\ scan_id[t] \in DOMAIN active_scans'
                     /\ active_scans'[scan_id[t]].paused
              /\ BatchPaused(t) => Started(t)' = Started(t)]_vars

\* C11: pause_scan and cancel_scan never end an external process that has
\* been launched: a control call leaves every process and every coroutine
\* where it is, and a launched process stays launched until communicate()
\* returns its exit, at which step the scan's result gets its final status.
C11_LaunchedRunsToExit ==
    [][/\ \A id \in AllIds :
              (pause_scan(id) \/ cancel_scan(id)) =>
                  proc' = proc /\ pc' = pc /\ cur' = cur
       /\ \A t \in Tasks :
              proc[t].st = "running" =>
                  \/ proc'[t] = proc[t] /\ pc'[t] = pc[t]
                  \/ /\ proc'[t].st = "exited"
                     /\ cur'[t].status \in {"completed", "error"}]_vars

\* A sweep whose handle was paused and cancelled, and whose process has
\* nevertheless exited with its result taken as completed.
C11_Witness ==
    \E t \in Tasks :
        /\ op[t] = "ping_sweep" /\ pc[t] = "cb100"
        /\ proc[t].st = "exited" /\ cur[t].status = "completed"
        /\ scan_id[t] \in DOMAIN active_scans
        /\ active_scans[scan_id[t]].cancelled
        /\ active_scans[scan_id[t]].paused

\* C12: the first three wait() calls made on the empty limiter return, and
\* return without having waited (the ceiling of the scanner's limiter is not
\* below the 3 of the claim).
C12_FirstCallsDoNotWait ==
    \A k \in DOMAIN wait_log :
        k <= 3 => wait_log[k].end = "returned" /\ wait_log[k].waited = 0

\* C13: a control call on an active id sets its flag to the same value
\* whatever the flag was, and a second call in succession changes nothing:
\* pause_scan leaves paused True, resume_scan leaves it False, cancel_scan
\* leaves cancelled True.
C13_ControlIdempotent ==
    [][\A id \in DOMAIN active_scans :
          /\ pause_scan(id) =>
                 /\ active_scans'[id].paused
                 /\ active_scans[id].paused => active_scans' = active_scans
          /\ resume_scan(id) =>
                 /\ ~active_scans'[id].paused
                 /\ ~active_scans[id].paused => active_scans' = active_scans
          /\ cancel_scan(id) =>
                 /\ active_scans'[id].cancelled
                 /\ active_scans[id].cancelled =>
                        active_scans' = active_scans]_vars

\* resume_scan has returned True and left a handle unpaused whose cancelled
\* flag an earlier cancel_scan had set: the state a second resume_scan or
\* cancel_scan meets.
C13_Witness ==
    /\ ctl.op = "resume_scan" /\ ctl.ret
    /\ \E id \in DOMAIN active_scans :
           ~active_scans[id].paused /\ active_scans[id].cancelled

\* Task t was handed a malformed target.
Malformed(t) ==
    \/ op[t] = "ping_sweep" /\ ~ip_network_ok(cur[t].target)
    \/ op[t] \in {"scan_single", "port_scan"}
           /\ cur[t].target = MalformedTarget

\* C14: a scan of a malformed target has returned an 'error' result at once:
\* it awaits nothing, it has started no process and no handle in active_scans
\* belongs to it.
C14_MalformedRejected ==
    \A t \in Tasks :
        Malformed(t) =>
            /\ pc[t] = "done" /\ cur[t].status = "error"
            /\ proc[t].st = "none"
            /\ \A id \in DOMAIN active_scans : active_scans[id].result # t

\* C15: a process that exited with a non-zero code leaves a result of status
\* 'error' whose errors list is exactly the stderr text.
C15_NonZeroExit ==
    \A t \in Tasks :
        (proc[t].st = "exited" /\ proc[t].returncode # 0) =>
            /\ cur[t].status = "error"
            /\ cur[t].errors = <<"stderr">>

\* A sweep and a single-target scan have both returned after a non-zero exit.
C15_Witness ==
    \E t, u \in Tasks :
        /\ op[t] = "ping_sweep" /\ op[u] = "scan_single"
        /\ \A x \in {t, u} :
               /\ ret[x] = "returned"
               /\ proc[x].st = "exited" /\ proc[x].returncode # 0

\* C16: a port scan whose process exited with code 0 and whose output is not
\* a well-formed document has status 'completed' and carries the findings
\* dict of the fallback, whatever the text is.
C16_FallbackCompletes ==
    \A t \in Tasks :
        ( /\ op[t] \in {"scan_single", "port_scan"} /\ pc[t] = "done"
          /\ proc[t].st = "exited" /\ proc[t].returncode = 0
          /\ ParseError(proc[t].stdout) ) =>
            /\ cur[t].status = "completed"
            /\ "ports" \in cur[t].results.keys

\* C17: the fallback parser has run exactly for the outputs on which the
\* structured parse raised a format error; a well-formed document without
\* ports gives a completed result with empty findings and no fallback.
C17_FallbackOnlyOnFormatError ==
    \A t \in Tasks :
        ( /\ op[t] \in {"scan_single", "port_scan"} /\ pc[t] = "done"
          /\ proc[t].st = "exited" /\ proc[t].returncode = 0 ) =>
            /\ fallback_log[t] <=> ~proc[t].stdout.xml
            /\ (proc[t].stdout.xml /\ proc[t].stdout.ports = <<>>) =>
                   /\ cur[t].status = "completed"
                   /\ cur[t].results = Findings(<<>>, <<>>)

\* One scan returned the empty findings of a well-formed document without
\* ports, another went through the fallback.
C17_Witness ==
    \E t, u \in Tasks :
        /\ pc[t] = "done" /\ proc[t].st = "exited"
        /\ proc[t].returncode = 0
        /\ proc[t].stdout.xml /\ proc[t].stdout.ports = <<>>
        /\ ~fallback_log[t] /\ cur[t].status = "completed"
        /\ pc[u] = "done" /\ fallback_log[u]
        /\ cur[u].status = "completed"

\* C18: a batch run with a progress callback that never raised has ended by
\* returning, after one event per target and a final event of 100; every
\* percentage is within 0..100 and none is below the one before it.
C18_ProgressEvents ==
    \A t \in Tasks :
        ( /\ op[t] = "port_scan" /\ cb[t] /\ pc[t] = "done"
          /\ \A k \in DOMAIN events[t] : events[t][k].ok ) =>
            /\ ret[t] = "returned"
            /\ Len(events[t]) = Len(targets[t]) + 1
            /\ events[t][Len(events[t])].pct = 100
            /\ \A k \in DOMAIN events[t] :
                   /\ events[t][k].pct \in 0..100
                   /\ k > 1 => events[t][k - 1].pct <= events[t][k].pct

\* The open ports of the analysed results, as positions <<result, port>>.
OpenAt ==
    {x \in UNION {{i} \X DOMAIN analysed[i].results.ports :
                      i \in DOMAIN analysed} :
        /\ analysed[x[1]].status = "completed"
        /\ analysed[x[1]].results.ports[x[2]].state = "open"}

PortAt(x) == analysed[x[1]].results.ports[x[2]]

\* The score before the clamp, every open port of an unencrypted service
\* counted.
RawPerOccurrence ==
    20 * Cardinality({x \in OpenAt : PortAt(x).port \in HighRiskPorts})
    + (IF Cardinality(OpenAt) > 50 THEN 30 ELSE 0)
    + 15 * Cardinality({x \in OpenAt :
                           PortAt(x).service \in UnencryptedServices})

\* The raw score with every unencrypted service name counted once.
RawPerName ==
    20 * Cardinality({x \in OpenAt : PortAt(x).port \in HighRiskPorts})
    + (IF Cardinality(OpenAt) > 50 THEN 30 ELSE 0)
    + 15 * Cardinality({PortAt(x).service : x \in OpenAt}
                           \cap UnencryptedServices)

Called == analysis # NoAnalysis

\* C19: the returned risk score is min(100, 20 per open high-risk port + 30
\* for more than 50 open ports + 15 per distinct unencrypted service name).
C19_ScorePerDistinctName ==
    Called =>
        analysis.risk_assessment.risk_score =
            (IF RawPerName < 100 THEN RawPerName ELSE 100)

\* C20: the returned risk score lies in 0..100; the level is low below a raw
\* score of 40, medium from 40 to 69, high from 70 to 99, critical from 100
\* on; the level is critical exactly when the returned score is 100.
C20_LevelAndClamp ==
    Called =>
        LET ra == analysis.risk_assessment IN
        /\ ra.risk_score \in 0..100
        /\ ra.risk_level = "low" <=> RawPerOccurrence < 40
        /\ ra.risk_level = "medium" <=> RawPerOccurrence \in 40..69
        /\ ra.risk_level = "high" <=> RawPerOccurrence \in 70..99
        /\ ra.risk_level = "critical" <=> RawPerOccurrence >= 100
        /\ ra.risk_level = "critical" <=> ra.risk_score = 100

\* An analysis whose raw score passed 100: the clamp has acted and the
\* level is critical.
C20_Witness ==
    /\ Called
    /\ RawPerOccurrence > 100
    /\ analysis.risk_assessment.risk_level = "critical"
    /\ analysis.risk_assessment.risk_score = 100

\* The one completed result analysed carries exactly the port list pl.
OnlyPorts(pl) ==
    /\ Called /\ Len(analysed) = 1
    /\ analysed[1].status = "completed"
    /\ analysed[1].results.ports = pl

\* Added ports that touch no other term of the score.
Unremarkable(more) ==
    \A k \in DOMAIN more :
        /\ more[k].port \notin HighRiskPorts
        /\ more[k].service \notin UnencryptedServices

\* C21 as stated: open ports 445, 3389 and 22 with the service ftp score 55,
\* level medium; with any 48 more open ports (51 in total) the score lies in
\* 0..100 and the level is high.
C21_AnyMorePorts ==
    /\ OnlyPorts(FewPorts) =>
           /\ analysis.risk_assessment.risk_score = 55
           /\ analysis.risk_assessment.risk_level = "medium"
    /\ \A more \in MorePorts :
           OnlyPorts(FewPorts \o more) =>
               /\ analysis.risk_assessment.risk_score \in 0..100
               /\ analysis.risk_assessment.risk_level = "high"

\* C21, amended: open ports 445, 3389 and 22 with the service ftp score 55,
\* level medium; with 48 more open ports that are outside the high-risk set
\* and run no unencrypted service (51 in total) the score is 30 higher, 85,
\* and the level is high.
C21_PlainMorePorts ==
    /\ OnlyPorts(FewPorts) =>
           /\ analysis.risk_assessment.risk_score = 55
           /\ analysis.risk_assessment.risk_level = "medium"
    /\ \A more \in MorePorts :
           (Unremarkable(more) /\ OnlyPorts(FewPorts \o more)) =>
               /\ analysis.risk_assessment.risk_score = 55 + 30
               /\ analysis.risk_assessment.risk_level = "high"

\* The 51-port findings have been analysed.
C21_Witness ==
    \E more \in MorePorts :
        /\ Unremarkable(more) /\ Len(FewPorts \o more) = 51
        /\ OnlyPorts(FewPorts \o more)
        /\ analysis.risk_assessment.risk_level = "high"

\* The buckets in the order in which the code evaluates them.
Buckets ==
    << Action("high", "Service Enumeration"),
       Action("medium", "Web Application Testing"),
       Action("high", "Database Assessment") >>

BucketOf(a) == CHOOSE k \in DOMAIN Buckets : Buckets[k] = a

\* C22: the recommendations are entries of the three buckets, at most one
\* per bucket, in descending priority weight, entries of equal weight in
\* bucket evaluation order; with all three the order is service enumeration,
\* database assessment, web testing.
C22_RecommendationOrder ==
    Called =>
        LET ra == analysis.recommended_actions IN
        /\ \A k \in DOMAIN ra : \E b \in DOMAIN Buckets : Buckets[b] = ra[k]
        /\ \A i, j \in DOMAIN ra :
               i < j =>
                   /\ ra[i] # ra[j]
                   /\ PriorityWeight(ra[i].priority)
                          >= PriorityWeight(ra[j].priority)
                   /\ PriorityWeight(ra[i].priority)
                          = PriorityWeight(ra[j].priority)
                      => BucketOf(ra[i]) < BucketOf(ra[j])
        /\ Len(ra) = 3 =>
               ra = <<Buckets[1], Buckets[3], Buckets[2]>>

\* All three buckets matched.
C22_Witness == Called /\ Len(analysis.recommended_actions) = 3

\* C23: two analyses of the same scan results return the same risk
\* assessment (level, score, factors) and the same recommendations, whatever
\* the two narrative-analysis replies were.
C23_ReplyIndependent ==
    previous # NoAnalysis =>
        /\ analysis.risk_assessment = previous.risk_assessment
        /\ analysis.recommended_actions = previous.recommended_actions

\* The same findings analysed twice, once with a reply and once with the
\* error reply, findings that score and draw recommendations.
C23_Witness ==
    /\ previous # NoAnalysis
    /\ previous.ai_analysis # analysis.ai_analysis
    /\ analysis.risk_assessment.risk_score > 0
    /\ analysis.recommended_actions # <<>>

HasRun(command, q) ==
    \E i \in 1..Len(command) :
        i + Len(q) - 1 <= Len(command)
        /\ SubSeq(command, i, i + Len(q) - 1) = q

\* C25: for an intensity that is no member of ScanIntensity the builder
\* returns the very list it returns for normal, with the timing and retry
\* flags -T3 --max-retries 2.
C25_UnknownIntensityIsNormal ==
    \A k \in DOMAIN built :
        built[k].intensity \notin ScanIntensity =>
            /\ built[k].command =
                   build_nmap_command(built[k].target, built[k].scan_type,
                                      Member("normal"))
            /\ HasRun(built[k].command, <<"-T3", "--max-retries", "2">>)

\* The builder was called with None for the intensity.
C25_Witness ==
    \E k \in DOMAIN built :
        built[k].intensity = Plain(PyNone) /\ built[k].scan_type = "stealth"

\* q in ascending order, duplicates kept.
SortedAscending(q) ==
    CHOOSE r \in [DOMAIN q -> {q[k] : k \in DOMAIN q}] :
        /\ \A i, j \in DOMAIN r : i < j => r[i] <= r[j]
        /\ \A x \in {q[k] : k \in DOMAIN q} :
               Cardinality({k \in DOMAIN q : q[k] = x})
                   = Cardinality({k \in DOMAIN r : r[k] = x})

\* C26: with a non-empty target.ports the command carries -p followed by the
\* ports joined by commas in ascending order, duplicates kept, in whatever
\* order they were given; with ports empty or absent it carries no -p.
C26_PortsAscending ==
    \A k \in DOMAIN built :
        LET ports == built[k].target.ports IN
        IF ports.given /\ ports.list # <<>>
        THEN HasRun(built[k].command,
                    <<"-p", JoinComma(SortedAscending(ports.list))>>)
        ELSE ~HasRun(built[k].command, <<"-p">>)

\* C27: a well-formed document whose N port elements all have a state
\* parses, on the primary path, to N port entries in document order, each
\* with the number, protocol, state and service of its element.
C27_DocumentRoundTrip ==
    ( /\ parse_call.fn = "port_scan" /\ parse_call.doc.xml
      /\ \A k \in DOMAIN parse_call.doc.ports :
             parse_call.doc.ports[k].state # PyNone ) =>
        LET elems == parse_call.doc.ports
            ports == parse_call.results.ports
        IN  /\ ~parse_call.raised /\ ~parse_call.fallback
            /\ Len(ports) = Len(elems)
            /\ \A k \in DOMAIN elems :
                   /\ PyStr(ports[k].port) = elems[k].portid
                   /\ ports[k].protocol = elems[k].protocol
                   /\ ports[k].state = elems[k].state
                   /\ ports[k].service = elems[k].service

\* A document of two ports in different states, one without a service
\* element, has been parsed.
C27_Witness ==
    /\ parse_call.fn = "port_scan" /\ parse_call.doc.xml
    /\ Len(parse_call.doc.ports) = 2
    /\ parse_call.doc.ports[1].state = "closed"
    /\ parse_call.doc.ports[2].state = "open"
    /\ Len(parse_call.results.ports) = 2

\* A line of the shape '<port>/<protocol> <state> [service]'.
Shaped(line) ==
    /\ Len(line) >= 2
    /\ line[1] \in {"21/tcp", "80/tcp", "53/udp"}
    /\ line[2] \in {"open", "closed", "filtered"}

\* C28: the fallback never fails on a text, and lines that do not have the
\* shape add no finding: a text without a line of the shape gives no
\* finding.
C28_BadLineSkipped ==
    (parse_call.fn = "port_scan" /\ ~parse_call.doc.xml) =>
        /\ ~parse_call.raised
        /\ (\A k \in DOMAIN parse_call.doc.lines :
                ~Shaped(parse_call.doc.lines[k]))
           => parse_call.results.ports = <<>>

\* The protocol a port token names.
ProtocolOf(tok) == IF tok = "53/udp" THEN "udp" ELSE "tcp"

\* C29: on a text whose lines all have the shape the fallback yields one
\* finding per line, in order, with the protocol and the state of the line
\* and the service name of the line when it has one.
C29_FindingPerShapedLine ==
    ( /\ parse_call.fn = "port_scan" /\ ~parse_call.doc.xml
      /\ \A k \in DOMAIN parse_call.doc.lines :
             Shaped(parse_call.doc.lines[k]) ) =>
        LET lines == parse_call.doc.lines
            ports == parse_call.results.ports
        IN  /\ ~parse_call.raised
            /\ Len(ports) = Len(lines)
            /\ \A k \in DOMAIN lines :
                   /\ ports[k].protocol = ProtocolOf(lines[k][1])
                   /\ ports[k].state = lines[k][2]
                   /\ Len(lines[k]) > 2 => ports[k].service = lines[k][3]

\* C30: the ping sweep parser never fails and emits one entry of status up
\* per host-discovered line; for a line that carries only an address the
\* entry has that address as ip and no hostname.
C30_AddressOnlyLine ==
    parse_call.fn = "ping_sweep" =>
        LET reports == SelectSeq(parse_call.doc.lines, IsReport) IN
        /\ ~parse_call.raised
        /\ Len(parse_call.hosts) = Len(reports)
        /\ \A k \in DOMAIN reports :
               /\ parse_call.hosts[k].status = "up"
               /\ Len(reports[k]) = 5 =>
                      /\ parse_call.hosts[k].ip = reports[k][5]
                      /\ parse_call.hosts[k].hostname = PyNone

\* C31: a batch for whose id pause_scan and then cancel_scan were called
\* while it ran, with no resume_scan in between, starts no further target
\* and, unless its caller's own progress callback raises, ends by returning
\* its partial result list.
C31_PausedThenCancelled ==
    [][\A t \in Tasks :
          (op[t] = "port_scan" /\ pause_seen[t] = "paused_cancelled") =>
              /\ Started(t)' = Started(t)
              /\ ( /\ pc'[t] = "done"
                   /\ \A k \in DOMAIN events'[t] : events'[t][k].ok ) =>
                     ret'[t] = "returned"]_vars

\* The wait() calls that have ended, by returning or by raising.
EndedWaits ==
    {k \in DOMAIN wait_log : wait_log[k].end \in {"returned", "raised"}}

\* C32: each wait() call that has ended has appended exactly one timestamp to
\* request_times, and a call that has not ended has appended none: as long
\* as no timestamp is old enough to be dropped, request_times holds as many
\* timestamps as calls have ended.
C32_OneTimestampPerCall ==
    (\A k \in DOMAIN request_times : request_times[k] > clock - Window) =>
        Len(request_times) = Cardinality(EndedWaits)

\* C33: the timestamp of every wait() call that has ended is its admission
\* instant, the time of the call plus the time it waited, and it is in
\* request_times during the 60 seconds that follow.
C33_RecordedAtAdmission ==
    \A k \in EndedWaits :
        LET admitted == wait_log[k].at + wait_log[k].waited
        IN  admitted > clock - Window =>
                \E j \in DOMAIN request_times : request_times[j] = admitted

\* The wait() calls before call k that ended within the 60 seconds before it.
InWindowBefore(k) ==
    {j \in 1..(k - 1) :
        /\ wait_log[j].end = "returned"
        /\ wait_log[j].at + wait_log[j].waited > wait_log[k].at - Window}

\* C34: a wait() call made when fewer than requests_per_minute calls were
\* admitted within the last 60 seconds has returned without suspending.
C34_NoWaitBelowCeiling ==
    \A k \in DOMAIN wait_log :
        Cardinality(InWindowBefore(k)) < RequestsPerMinute =>
            wait_log[k].end = "returned" /\ wait_log[k].waited = 0

\* C35: no wait() call ends otherwise than by returning: no batch has been
\* ended by an exception that its own progress callback did not raise, and
\* no call is on record as raised.
C35_WaitReturns ==
    /\ \A t \in Tasks :
           (op[t] = "port_scan" /\ ret[t] = "raised") =>
               \E k \in DOMAIN events[t] : ~events[t][k].ok
    /\ \A k \in DOMAIN wait_log : wait_log[k].end # "raised"

\* What a control call on id leaves alone whichever flag it writes: the set
\* of handles, every handle but the one of id, the result the handle of id
\* refers to and every other result, scan_history and request_times.
ControlFrame(id) ==
    /\ DOMAIN active_scans' = DOMAIN active_scans
    /\ \A x \in DOMAIN active_scans \ {id} :
           active_scans'[x] = active_scans[x]
    /\ id \in DOMAIN active_scans =>
           active_scans'[id].result = active_scans[id].result
    /\ cur' = cur /\ results' = results
    /\ scan_history' = scan_history
    /\ request_times' = request_times

\* C36: pause_scan(id) and resume_scan(id) write only the paused flag of
\* the handle of id, cancel_scan(id) only its cancelled flag: the other flag
\* and the result of that handle, every other handle, scan_history and
\* request_times are as before the call.
C36_ControlWritesOneFlag ==
    [][\A id \in AllIds :
          /\ (pause_scan(id) \/ resume_scan(id)) =>
                 /\ ControlFrame(id)
                 /\ id \in DOMAIN active_scans =>
                        active_scans'[id].cancelled =
                            active_scans[id].cancelled
          /\ cancel_scan(id) =>
                 /\ ControlFrame(id)
                 /\ id \in DOMAIN active_scans =>
                        active_scans'[id].paused = active_scans[id].paused
      ]_vars

\* cancel_scan has returned True on one of two handles, the paused one, and
\* both flags of the other handle are as they were set at registration.
C36_Witness ==
    /\ ctl.op = "cancel_scan" /\ ctl.ret
    /\ \E x, y \in DOMAIN active_scans :
           /\ x # y
           /\ active_scans[x].paused /\ active_scans[x].cancelled
           /\ ~active_scans[y].paused /\ ~active_scans[y].cancelled

\* C37: the findings either path of _parse_port_scan_results returns have
\* the keys ports, host_info and services, every port entry has the fields
\* port, protocol, state, service, product and version, and a service that
\* the output does not name is None, not a placeholder string.
C37_SameFindingsShape ==
    (parse_call.fn = "port_scan" /\ ~parse_call.raised) =>
        /\ parse_call.results.keys = {"ports", "host_info", "services"}
        /\ \A k \in DOMAIN parse_call.results.ports :
               /\ parse_call.port_keys[k] =
                      {"port", "protocol", "state", "service", "product",
                       "version"}
               /\ parse_call.results.ports[k].service # "unknown"

\* C38: no two scans in flight share a scan id, and every sweep in flight
\* has a handle under its id that is its own: no later registration has
\* replaced it and no other scan's termination has removed it.
C38_OwnHandleWhileInFlight ==
    /\ \A t, u \in InFlight : t # u => scan_id[t] # scan_id[u]
    /\ \A t \in Tasks :
           (op[t] = "ping_sweep" /\ Running(t)) =>
               /\ scan_id[t] \in DOMAIN active_scans
               /\ active_scans[scan_id[t]].result = t

\* The names of the recommended actions of the analysis.
Recommended ==
    {analysis.recommended_actions[k].action :
        k \in DOMAIN analysis.recommended_actions}

\* C39: the risk assessment and the recommendations of an analysis are
\* those of the ports in state 'open' of the results of status 'completed'
\* and of nothing else: the port count, the score, the level, and each
\* recommendation is made exactly when one of these ports calls for it.
C39_OnlyOpenPortsOfCompleted ==
    Called =>
        LET ra == analysis.risk_assessment IN
        /\ ra.total_open_ports = Cardinality(OpenAt)
        /\ ra.risk_score =
               (IF RawPerOccurrence < 100 THEN RawPerOccurrence ELSE 100)
        /\ ra.risk_level =
               (IF RawPerOccurrence >= 100 THEN "critical"
                ELSE IF RawPerOccurrence >= 70 THEN "high"
                ELSE IF RawPerOccurrence >= 40 THEN "medium" ELSE "low")
        /\ "Web Application Testing" \in Recommended <=>
               \E x \in OpenAt : PortAt(x).port \in WebPorts
        /\ "Service Enumeration" \in Recommended <=>
               \E x \in OpenAt : PortAt(x).service \in HighRiskServices
        /\ "Database Assessment" \in Recommended <=>
               \E x \in OpenAt : PortAt(x).service \in DbServices

\* An analysis of a failed result that carries open ports and of a
\* completed one with a filtered web port and a closed high-risk port: score
\* 0, level low, no recommendation.
C39_Witness ==
    /\ Called /\ Len(analysed) = 2
    /\ analysed[1].status = "error" /\ analysed[1].results.ports # <<>>
    /\ analysed[2].status = "completed"
    /\ Len(analysed[2].results.ports) = 2
    /\ analysed[2].results.ports[1].state = "filtered"
    /\ analysed[2].results.ports[2].state = "closed"
    /\ analysis.risk_assessment.risk_score = 0
    /\ analysis.recommended_actions = <<>>

====
